---- MODULE Spec2Model ----
(***************************************************************************)
(* Price-history store of the price tracker: the SQLite-backed             *)
(* PriceDatabase (database.py) and its parallel variant DatabaseManager    *)
(* (database_manager.py).  One database file is shared by several store    *)
(* handles; every sqlite3 connection a method opens is one atomic step, so *)
(* a method that resolves the product id on one connection and writes on   *)
(* another takes two steps and other handles may run in between.           *)
(*                                                                         *)
(* Datetimes are naive (every caller passes datetime.now() or a parsed     *)
(* naive value) and are counted in ticks; sqlite3 stores them as the text  *)
(* datetime.isoformat(" ") produces, modelled as the tuple                 *)
(* <<day, second[, fraction]>> that SQLite compares left to right.         *)
(***************************************************************************)
EXTENDS Integers, Sequences, FiniteSets, TLC

VARIABLES variant, products, products_seq, price_history, price_history_seq,
          pc, locals, ret

vars == <<variant, products, products_seq, price_history, price_history_seq,
          pc, locals, ret>>

\* ------------------------------------------------------------------ bounds
MaxProducts == 2
MaxRecords == 2
MaxTime == 5
MaxPrice == 0
MaxLimit == 2
TicksPerSecond == 2
SecondsPerDay == 2
MaxDaysToKeep == 1
MaxDaysAhead == 2
MaxWindow == 3
MaxShortLen == 3
MaxSeriesLen == 10

Handles == {"h1", "h2"}
Names == {"A", "B"}
Urls == {"x", "y"}
Times == 0..MaxTime
\* datetime.now(): the model looks at the store at one instant, and every
\* timestamp a caller supplies lies at or before it.
now == MaxTime
Prices == -1..MaxPrice
Variants == {"PriceDatabase", "DatabaseManager"}
\* timedelta(days = 1)
TicksPerDay == TicksPerSecond * SecondsPerDay
Days == 0..MaxDaysToKeep

\* Python's None where the other values are positive integers (row ids).
None == 0

\* Optional values whose other values include 0: <<>> is None, <<v>> is v.
Nothing == <<>>
Some(v) == <<v>>

Min(a, b) == IF a < b THEN a ELSE b

\* ------------------------------------------------- datetime <-> stored text
\* sqlite3's default adapter: datetime.isoformat(" "), which leaves the
\* fraction out when it is zero.
adapt_datetime(t) ==
    LET day == t \div (TicksPerSecond * SecondsPerDay)
        sec == (t % (TicksPerSecond * SecondsPerDay)) \div TicksPerSecond
        frac == t % TicksPerSecond
    IN IF frac = 0 THEN <<day, sec>> ELSE <<day, sec, frac>>

\* SQLite's text comparison (BINARY collation): left to right, a proper
\* prefix sorts first.
RECURSIVE TextLess(_, _)
TextLess(a, b) ==
    IF a = <<>> THEN b # <<>>
    ELSE IF b = <<>> THEN FALSE
    ELSE IF Head(a) # Head(b) THEN Head(a) < Head(b)
    ELSE TextLess(Tail(a), Tail(b))

\* SQLite's CURRENT_TIMESTAMP, the default of a TIMESTAMP column: the
\* present time in whole seconds.
CURRENT_TIMESTAMP == adapt_datetime(now - (now % TicksPerSecond))

\* SQLite's DATE() and TIME(): the date part, and the time of day cut to
\* whole seconds.
DATE(text) == text[1]
TIME(text) == text[2]

\* ------------------------------------------------------------ SQL queries
\* SELECT id FROM products WHERE name = ?  (fetchone)
get_product_id(name) ==
    IF \E p \in products : p.name = name
    THEN (CHOOSE p \in products : p.name = name).id
    ELSE None

\* rows of price_history WHERE product_id = ?
RowsOf(product_id) == {r \in price_history : r.product_id = product_id}

\* Mutant: ORDER BY id, the order of insertion.
OrderKeyBefore_by_id(r, s) == r.id <= s.id

\* ORDER BY recorded_at ASC: SQLite's sorter keeps rows with equal keys in
\* rowid order.
OrderKeyBefore(r, s) ==
    \/ TextLess(r.recorded_at, s.recorded_at)
    \/ r.recorded_at = s.recorded_at /\ r.id <= s.id

RECURSIVE ORDER_BY_recorded_at_ASC(_)
ORDER_BY_recorded_at_ASC(rows) ==
    IF rows = {} THEN <<>>
    ELSE LET first == CHOOSE r \in rows : \A s \in rows : OrderKeyBefore(r, s)
         IN <<first>> \o ORDER_BY_recorded_at_ASC(rows \ {first})

\* Mutant: the newest n rows instead of the first n.
LIMIT_newest(rows, n) ==
    IF n < 0 THEN rows
    ELSE SubSeq(rows, Len(rows) - Min(n, Len(rows)) + 1, Len(rows))

\* LIMIT n of SQLite: a negative n means no limit.
LIMIT(rows, n) ==
    IF n < 0 THEN rows ELSE SubSeq(rows, 1, Min(n, Len(rows)))

\* Mutant: ORDER BY id DESC LIMIT 1, the row inserted last.
ORDER_BY_id_DESC_LIMIT_1(rows) ==
    {r \in rows : \A s \in rows : s.id <= r.id}

\* ORDER BY recorded_at DESC LIMIT 1: one of the rows with the highest key;
\* which of several equal ones is left to the query planner.
ORDER_BY_recorded_at_DESC_LIMIT_1(rows) ==
    {r \in rows : \A s \in rows : ~TextLess(r.recorded_at, s.recorded_at)}

\* ---------------------------------------------------------------- queries
\* The rows of a DataFrame read from
\*   SELECT DATE(recorded_at) as Date, TIME(recorded_at) as Time, price
DataFrame(rows) ==
    [i \in 1..Len(rows) |-> [Date |-> DATE(rows[i].recorded_at),
                             Time |-> TIME(rows[i].recorded_at),
                             Price |-> rows[i].price]]

\* limit is Nothing (None) or Some(n); `if limit:` is false for None and 0.
get_price_history(product_name, limit) ==
    LET product_id == get_product_id(product_name)
    IN IF product_id = None
       THEN <<>>
       ELSE LET rows == ORDER_BY_recorded_at_ASC(RowsOf(product_id))
            IN IF limit # Nothing /\ limit[1] # 0
               THEN DataFrame(LIMIT(rows, limit[1]))
               ELSE DataFrame(rows)

\* The results the call can have: Nothing (None) or Some(price).
PriceDatabase_get_latest_price(product_name) ==
    LET product_id == get_product_id(product_name)
    IN IF product_id = None \/ RowsOf(product_id) = {}
       THEN {Nothing}
       ELSE {Some(r.price) :
                r \in ORDER_BY_recorded_at_DESC_LIMIT_1(RowsOf(product_id))}

\* database_manager.py: Nothing (None) when the product is unknown, else
\* Some(DataFrame) read from date_only, time_only, price ORDER BY scraped_at;
\* date_only and time_only are strftime('%Y-%m-%d') and strftime('%H:%M:%S')
\* of the timestamp, the same parts DATE() and TIME() cut out.
get_product_data(product_name) ==
    LET product_id == get_product_id(product_name)
    IN IF product_id = None    \* `not product_id`
       THEN Nothing
       ELSE Some(DataFrame(ORDER_BY_recorded_at_ASC(RowsOf(product_id))))

\* The results the call can have: Nothing or Some({price, timestamp}).
DatabaseManager_get_latest_price(product_name) ==
    LET product_id == get_product_id(product_name)
    IN IF product_id = None \/ RowsOf(product_id) = {}
       THEN {Nothing}
       ELSE {Some([price |-> r.price, timestamp |-> r.recorded_at]) :
                r \in ORDER_BY_recorded_at_DESC_LIMIT_1(RowsOf(product_id))}

\* ------------------------------------------------------------- statistics
RECURSIVE SumPrice(_)
SumPrice(df) == IF df = <<>> THEN 0 ELSE Head(df).Price + SumPrice(Tail(df))

RECURSIVE SumSquares(_)
SumSquares(df) ==
    IF df = <<>> THEN 0 ELSE Head(df).Price * Head(df).Price + SumSquares(Tail(df))

\* The values of the columns df['Price'] and df['Date'].
PriceColumn(df) == {df[i].Price : i \in 1..Len(df)}
DateColumn(df) == {df[i].Date : i \in 1..Len(df)}

\* Series.min() and Series.max() of a column with at least one value.
SeriesMin(values) == CHOOSE v \in values : \A w \in values : v <= w
SeriesMax(values) == CHOOSE v \in values : \A w \in values : v >= w

\* Series.mean(): the exact quotient num / den.
mean(df) == [num |-> SumPrice(df), den |-> Len(df)]

\* Series.std(): the sample standard deviation (ddof = 1), whose square is
\*   (n * sum(x^2) - sum(x)^2) / (n * (n - 1));
\* with one value the quotient is 0 / 0 and pandas returns NaN.
std(df) ==
    LET n == Len(df)
    IN IF n * (n - 1) = 0
       THEN [nan |-> TRUE, sq_num |-> 0, sq_den |-> 0]
       ELSE [nan |-> FALSE,
             sq_num |-> n * SumSquares(df) - SumPrice(df) * SumPrice(df),
             sq_den |-> n * (n - 1)]

\* Nothing is the empty dict {}.
get_statistics(product_name) ==
    LET df == get_price_history(product_name, Nothing)
    IN IF df = <<>>
       THEN Nothing
       ELSE Some([count |-> Len(df),
                  min_price |-> SeriesMin(PriceColumn(df)),
                  max_price |-> SeriesMax(PriceColumn(df)),
                  avg_price |-> mean(df),
                  std_price |-> std(df),
                  first_price |-> df[1].Price,
                  last_price |-> df[Len(df)].Price,
                  first_date |-> SeriesMin(DateColumn(df)),
                  last_date |-> SeriesMax(DateColumn(df))])

\* -------------------------------------------------------------- analytics
\* advanced_analytics.py, over the DataFrame get_price_history returns.
\* A call returns the dict of a computed value or the dict
\* {'error': message}, or it raises an exception.
Result(value) == [error |-> "", value |-> <<value>>, raised |-> ""]
Error(message) == [error |-> message, value |-> <<>>, raised |-> ""]
Raise(exception) == [error |-> "", value |-> <<>>, raised |-> exception]

Abs(x) == IF x < 0 THEN -x ELSE x

RECURSIVE GCD(_, _)
GCD(a, b) == IF b = 0 THEN Abs(a) ELSE GCD(b, a % Abs(b))

LCM(a, b) == (Abs(a) \div GCD(a, b)) * Abs(b)

\* df['Price'].values
values(df) == [i \in 1..Len(df) |-> df[i].Price]

\* pd.to_datetime(df['Date']): the midnight that starts the day.
to_datetime(date) == date * TicksPerDay

\* df[df['Date'] >= cutoff_date]
filter_Date_since(df, cutoff_date) ==
    SelectSeq(df, LAMBDA row : to_datetime(row.Date) >= cutoff_date)

\* np.diff(prices) / prices[:-1] * 100, each quotient kept exact; a zero
\* denominator stands for the inf or nan numpy produces.
returns_of(prices) ==
    [i \in 1..(Len(prices) - 1) |->
        [num |-> (prices[i + 1] - prices[i]) * 100, den |-> prices[i]]]

RECURSIVE CommonDenominator(_)
CommonDenominator(xs) ==
    IF xs = <<>> THEN 1 ELSE LCM(Head(xs).den, CommonDenominator(Tail(xs)))

RECURSIVE SumSeq(_)
SumSeq(xs) == IF xs = <<>> THEN 0 ELSE Head(xs) + SumSeq(Tail(xs))

\* np.var of at least one quotient (population variance, ddof = 0):
\*   (m * sum(x^2) - sum(x)^2) / m^2, nan as soon as one value is inf or nan.
np_var(xs) ==
    IF \E i \in 1..Len(xs) : xs[i].den = 0
    THEN [nan |-> TRUE, num |-> 0, den |-> 0]
    ELSE LET D == CommonDenominator(xs)
             scaled == [i \in 1..Len(xs) |-> xs[i].num * (D \div xs[i].den)]
             squares == [i \in 1..Len(xs) |-> scaled[i] * scaled[i]]
             m == Len(xs)
         IN [nan |-> FALSE,
             num |-> m * SumSeq(squares) - SumSeq(scaled) * SumSeq(scaled),
             den |-> m * m * D * D]

\* np.std is the square root of np.var; the model keeps its square.
np_std(xs) ==
    LET variance == np_var(xs)
    IN [nan |-> variance.nan, sq_num |-> variance.num, sq_den |-> variance.den]

\* Mutant: the thresholds belong to the lower class.
volatility_level_inclusive(volatility) ==
    IF ~volatility.nan /\ volatility.sq_num <= 2 * 2 * volatility.sq_den
    THEN "Low"
    ELSE IF ~volatility.nan /\ volatility.sq_num <= 5 * 5 * volatility.sq_den
    THEN "Medium"
    ELSE "High"

\* advanced_analytics.py 57-63: volatility < 2, volatility < 5, else; every
\* comparison with nan is false.
volatility_level(volatility) ==
    IF ~volatility.nan /\ volatility.sq_num < 2 * 2 * volatility.sq_den
    THEN "Low"
    ELSE IF ~volatility.nan /\ volatility.sq_num < 5 * 5 * volatility.sq_den
    THEN "Medium"
    ELSE "High"

\* np.cumsum
RECURSIVE cumsum(_)
cumsum(xs) ==
    IF xs = <<>> THEN <<>>
    ELSE LET front == cumsum(SubSeq(xs, 1, Len(xs) - 1))
         IN Append(front, (IF front = <<>> THEN 0 ELSE front[Len(front)])
                              + xs[Len(xs)])

\* np.maximum.accumulate
RECURSIVE maximum_accumulate(_)
maximum_accumulate(xs) ==
    IF xs = <<>> THEN <<>>
    ELSE LET front == maximum_accumulate(SubSeq(xs, 1, Len(xs) - 1))
             last == xs[Len(xs)]
         IN Append(front, IF front # <<>> /\ front[Len(front)] > last
                          THEN front[Len(front)] ELSE last)

\* np.min of a non-empty array
RECURSIVE np_min(_)
np_min(xs) ==
    IF Len(xs) = 1 THEN xs[1]
    ELSE LET rest == np_min(Tail(xs))
         IN IF Head(xs) < rest THEN Head(xs) ELSE rest

\* Mutant: the drawdown of the prices themselves, not of their running sum.
calculate_max_drawdown_of_prices(prices) ==
    LET running_max == maximum_accumulate(prices)
        drawdown == [i \in 1..Len(prices) |-> prices[i] - running_max[i]]
        max_drawdown == np_min(drawdown)
    IN IF max_drawdown < 0 THEN Abs(max_drawdown) ELSE 0

\* advanced_analytics.py 245-251
calculate_max_drawdown(prices) ==
    LET cumulative == cumsum(prices)
        running_max == maximum_accumulate(cumulative)
        drawdown == [i \in 1..Len(prices) |-> cumulative[i] - running_max[i]]
        max_drawdown == np_min(drawdown)
    IN IF max_drawdown < 0 THEN Abs(max_drawdown) ELSE 0

\* advanced_analytics.py 26-75; of the result dict the model keeps
\* volatility_percent, variance, max_drawdown, volatility_level, data_points.
calculate_volatility(product_name, days_back) ==
    LET df == get_price_history(product_name, Nothing)
        cutoff_date == now - days_back * TicksPerDay
        df_filtered == filter_Date_since(df, cutoff_date)
        prices == values(df_filtered)
        volatility == np_std(returns_of(prices))
    IN IF df = <<>>
       THEN Error("No data available")
       ELSE IF Len(df_filtered) < 2
       THEN Error("Insufficient data for volatility calculation")
       ELSE Result([volatility_percent |-> volatility,
                    variance |-> np_var(returns_of(prices)),
                    max_drawdown |-> calculate_max_drawdown(prices),
                    volatility_level |-> volatility_level(volatility),
                    data_points |-> Len(prices)])

\* A quotient num / den with den # 0, written with a positive denominator.
Quotient(num, den) ==
    IF den < 0 THEN [num |-> -num, den |-> -den] ELSE [num |-> num, den |-> den]

\* a >= b and a > b for quotients with positive denominators
QuotientAtLeast(a, b) == a.num * b.den >= b.num * a.den
QuotientGreater(a, b) == a.num * b.den > b.num * a.den

\* df.sort_values('Date'): rows in Date order, rows of one Date in the order
\* they had (the sort of short frames is an insertion sort).
RECURSIVE sort_values_Date(_)
sort_values_Date(df) ==
    IF df = <<>> THEN <<>>
    ELSE LET front == sort_values_Date(SubSeq(df, 1, Len(df) - 1))
             row == df[Len(df)]
             before == SelectSeq(front, LAMBDA r : r.Date <= row.Date)
             after == SelectSeq(front, LAMBDA r : r.Date > row.Date)
         IN before \o <<row>> \o after

\* The running sum of pandas' rolling window at position i: the incoming
\* value is added, the one that leaves the window is removed.
RECURSIVE rolling_sum(_, _, _)
rolling_sum(prices, window, i) ==
    IF i = 0 THEN 0
    ELSE rolling_sum(prices, window, i - 1) + prices[i]
             - (IF i > window THEN prices[i - window] ELSE 0)

\* Mutant: rolling(window, min_periods = 1), a mean of the values so far.
rolling_mean_min_periods_1(prices, window) ==
    [i \in 1..Len(prices) |->
        Some([num |-> rolling_sum(prices, window, i),
              den |-> Min(i, window)])]

\* pd.Series(prices).rolling(window = window).mean(), with None for NaN:
\* min_periods is the window, so the first window - 1 positions are NaN.
rolling_mean(prices, window) ==
    [i \in 1..Len(prices) |->
        IF i < window
        THEN Nothing
        ELSE Some([num |-> rolling_sum(prices, window, i), den |-> window])]

\* min(windows) and max(windows) of a non-empty list
min_of(xs) == CHOOSE x \in {xs[i] : i \in 1..Len(xs)} :
                  \A i \in 1..Len(xs) : x <= xs[i]
max_of(xs) == CHOOSE x \in {xs[i] : i \in 1..Len(xs)} :
                  \A i \in 1..Len(xs) : x >= xs[i]

\* Truth value of a 'latest' entry: None and 0.0 are false.
truthy(latest) == latest # Nothing /\ latest[1].num # 0

\* advanced_analytics.py 214-224: the dict MA_<window> -> {values, latest},
\* with an entry for the windows the prices fill.
moving_avgs_of(prices, windows) ==
    [window \in {windows[k] : k \in {k \in 1..Len(windows) :
                                        Len(prices) >= windows[k]}} |->
        LET ma == rolling_mean(prices, window)
        IN [values |-> ma, latest |-> ma[Len(ma)]]]

\* advanced_analytics.py 226-236: "raise" stands for the KeyError of
\* moving_avgs[long_ma_key]; "None" for the signal left at None.
crossover_signal_of(moving_avgs, windows) ==
    IF Len(windows) >= 2 /\ Cardinality(DOMAIN moving_avgs) >= 2
    THEN LET short_ma_key == min_of(windows)
             long_ma_key == max_of(windows)
         IN IF long_ma_key \notin DOMAIN moving_avgs
               \/ short_ma_key \notin DOMAIN moving_avgs
            THEN "raise"
            ELSE LET short == moving_avgs[short_ma_key].latest
                     long == moving_avgs[long_ma_key].latest
                 IN IF truthy(short) /\ truthy(long)
                    THEN IF QuotientGreater(short[1], long[1])
                         THEN "Golden Cross (Bullish)"
                         ELSE "Death Cross (Bearish)"
                    ELSE "None"
    ELSE "None"

\* advanced_analytics.py 200-243
moving_averages(product_name, windows) ==
    LET df == get_price_history(product_name, Nothing)
        prices == values(sort_values_Date(df))
        moving_avgs == moving_avgs_of(prices, windows)
        crossover_signal == crossover_signal_of(moving_avgs, windows)
    IN IF df = <<>>
       THEN Error("No data available")
       ELSE IF crossover_signal = "raise"
       THEN Raise("KeyError")
       ELSE Result([moving_averages |-> moving_avgs,
                    current_price |-> prices[Len(prices)],
                    crossover_signal |-> crossover_signal])

\* np.polyfit(np.arange(n), y, 1): the least-squares line through the
\* points (0, y[1]) .. (n - 1, y[n]), n >= 2, kept exact.  Its slope is
\* slope_num / slope_den with slope_den > 0.
polyfit(y) ==
    LET n == Len(y)
        sum_x == SumSeq([i \in 1..n |-> i - 1])
        sum_xx == SumSeq([i \in 1..n |-> (i - 1) * (i - 1)])
        sum_y == SumSeq(y)
        sum_xy == SumSeq([i \in 1..n |-> (i - 1) * y[i]])
    IN [slope_num |-> n * sum_xy - sum_x * sum_y,
        slope_den |-> n * sum_xx - sum_x * sum_x,
        n |-> n, sum_x |-> sum_x, sum_y |-> sum_y]

\* np.polyval(coeffs, x) = intercept + slope * x, where
\* intercept = (sum_y - slope * sum_x) / n.
polyval(coeffs, x) ==
    [num |-> coeffs.sum_y * coeffs.slope_den
                 - coeffs.slope_num * coeffs.sum_x
                 + coeffs.slope_num * coeffs.n * x,
     den |-> coeffs.n * coeffs.slope_den]

\* train_test_split(X, y, test_size = 0.2, shuffle = False): the first
\* n - ceil(0.2 * n) points train the model.
train_of(y) == SubSeq(y, 1, Len(y) - ((Len(y) + 4) \div 5))

\* Mutant: a flat line counts as increasing.
trend_of_nonnegative(coeffs) ==
    IF coeffs.slope_num >= 0 THEN "increasing" ELSE "decreasing"

\* 'increasing' if slope > 0 else 'decreasing'
trend_of(coeffs) ==
    IF coeffs.slope_num > 0 THEN "increasing" ELSE "decreasing"

\* advanced_analytics.py 113-198; SKLEARN_AVAILABLE is whether scikit-learn
\* could be imported.  Of the result dict the model keeps method,
\* days_ahead, current_price, predicted_price, predictions, trend and slope.
predict_price(product_name, days_ahead, method, SKLEARN_AVAILABLE) ==
    LET df == get_price_history(product_name, Nothing)
        prices == values(sort_values_Date(df))
        linear == method = "linear" \/ ~SKLEARN_AVAILABLE
        coeffs == IF linear THEN polyfit(prices) ELSE polyfit(train_of(prices))
        predictions == [k \in 1..days_ahead |->
                           polyval(coeffs, Len(prices) + k - 1)]
    IN IF df = <<>>
       THEN Error("No data available")
       ELSE IF Len(df) < 10
       THEN Error("Insufficient data for prediction (need at least 10 data points)")
       ELSE IF ~linear /\ method # "ml"
       THEN Error("Unknown prediction method")
       ELSE IF predictions = <<>>
       THEN Raise("IndexError")    \* predictions[-1] of an empty array
       ELSE Result([method |-> IF ~SKLEARN_AVAILABLE /\ method = "ml"
                               THEN "linear" ELSE method,
                    days_ahead |-> days_ahead,
                    current_price |-> prices[Len(prices)],
                    predicted_price |-> predictions[Len(predictions)],
                    predictions |-> predictions,
                    trend |-> trend_of(coeffs),
                    slope |-> [num |-> coeffs.slope_num,
                               den |-> coeffs.slope_den]])

\* The first row of df[df['Price'] == price]
first_row_priced(df, price) ==
    df[CHOOSE i \in 1..Len(df) :
           /\ df[i].Price = price
           /\ \A j \in 1..(i - 1) : df[j].Price # price]

\* discount_tracker.py 13-44
calculate_discount(product_name) ==
    LET df == get_price_history(product_name, Nothing)
        max_price == SeriesMax(PriceColumn(df))
        min_price == SeriesMin(PriceColumn(df))
        current_price == df[Len(df)].Price
        avg_price == mean(df)
    IN IF Len(df) < 2
       THEN Error("Insufficient data")
       ELSE Result(
              [current_price |-> current_price,
               maximum_price |-> max_price,
               minimum_price |-> min_price,
               average_price |-> avg_price,
               discount_from_max_percent |->
                   IF max_price > 0
                   THEN Quotient((max_price - current_price) * 100, max_price)
                   ELSE Quotient(0, 1),
               discount_from_avg_percent |->
                   IF avg_price.num > 0
                   THEN Quotient((avg_price.num - current_price * avg_price.den)
                                     * 100, avg_price.num)
                   ELSE Quotient(0, 1),
               savings_from_max |-> max_price - current_price,
               is_lowest_price |-> current_price = min_price,
               is_below_average |->
                   current_price * avg_price.den < avg_price.num])

\* sorted(price_drops, key = drop_amount, reverse = True): stable.
RECURSIVE sorted_by_drop_amount(_)
sorted_by_drop_amount(drops) ==
    IF drops = <<>> THEN <<>>
    ELSE LET front == sorted_by_drop_amount(SubSeq(drops, 1, Len(drops) - 1))
             drop == drops[Len(drops)]
         IN SelectSeq(front, LAMBDA d : d.drop_amount >= drop.drop_amount)
                \o <<drop>>
                \o SelectSeq(front, LAMBDA d : d.drop_amount < drop.drop_amount)

\* discount_tracker.py 46-81: a list, empty with fewer than 2 observations;
\* a window that holds no row is replaced by the whole history.
get_price_drops(product_name, days_back) ==
    LET cutoff_date == now - days_back * TicksPerDay
        df == get_price_history(product_name, Nothing)
        in_window == filter_Date_since(df, cutoff_date)
        df_filtered == IF in_window = <<>> THEN df ELSE in_window
        falls == {i \in 2..Len(df_filtered) :
                     df_filtered[i].Price < df_filtered[i - 1].Price}
        drop(i) == [date |-> df_filtered[i].Date,
                    previous_price |-> df_filtered[i - 1].Price,
                    new_price |-> df_filtered[i].Price,
                    drop_amount |-> df_filtered[i - 1].Price
                                        - df_filtered[i].Price]
        price_drops == [k \in 1..Cardinality(falls) |->
                           drop(CHOOSE i \in falls :
                                    Cardinality({j \in falls : j <= i}) = k)]
    IN IF Len(df) < 2
       THEN Result(<<>>)
       ELSE Result(sorted_by_drop_amount(price_drops))

\* discount_tracker.py 83-108
get_best_discount_period(product_name) ==
    LET df == get_price_history(product_name, Nothing)
        min_price == SeriesMin(PriceColumn(df))
        max_price == SeriesMax(PriceColumn(df))
    IN IF df = <<>>
       THEN Error("No data available")
       ELSE Result(
              [best_price |-> min_price,
               best_price_date |-> first_row_priced(df, min_price).Date,
               highest_price |-> max_price,
               highest_price_date |-> first_row_priced(df, max_price).Date,
               best_discount_percent |->
                   IF max_price > 0
                   THEN Quotient((max_price - min_price) * 100, max_price)
                   ELSE Quotient(0, 1),
               potential_savings |-> max_price - min_price])

\* advanced_analytics.py 77-111; the model keeps the error and, of the
\* result, the number of rows grouped.
detect_seasonal_trends(product_name) ==
    LET df == get_price_history(product_name, Nothing)
    IN IF df = <<>>
       THEN Error("Date data required for seasonal analysis")
       ELSE Result([rows |-> Len(df)])

\* price_comparison.py 78-142; the model keeps current_price, the minimum,
\* maximum and average price of the window and the recommendation.
analyze_best_buy_time(product_name, days_back) ==
    LET df == get_price_history(product_name, Nothing)
        cutoff_date == now - days_back * TicksPerDay
        in_window == filter_Date_since(df, cutoff_date)
        df_filtered == IF in_window = <<>> THEN df ELSE in_window
        min_price == SeriesMin(PriceColumn(df_filtered))
        max_price == SeriesMax(PriceColumn(df_filtered))
        avg_price == mean(df_filtered)
        current_price == df_filtered[Len(df_filtered)].Price
    IN IF df = <<>>
       THEN Error("No data available")
       ELSE Result(
              [current_price |-> current_price,
               minimum_price |-> min_price,
               maximum_price |-> max_price,
               average_price |-> avg_price,
               minimum_price_date |->
                   first_row_priced(df_filtered, min_price).Date,
               recommendation |->
                   IF current_price * 100 <= min_price * 105
                   THEN "Excellent time to buy"
                   ELSE IF current_price * avg_price.den <= avg_price.num
                   THEN "Good time to buy"
                   ELSE IF current_price * avg_price.den * 10
                               <= avg_price.num * 11
                   THEN "Fair time to buy"
                   ELSE "Wait for better price"])

\* price_comparison.py 25-45: the entries of the names with observations,
\* in input order.
RECURSIVE compared_products(_)
compared_products(product_names) ==
    IF product_names = <<>> THEN <<>>
    ELSE LET product_name == Head(product_names)
             df == get_price_history(product_name, Nothing)
             stats == get_statistics(product_name)
             rest == compared_products(Tail(product_names))
         IN IF df = <<>>
            THEN rest
            ELSE <<[name |-> product_name,
                    latest_price |-> df[Len(df)].Price,
                    min_price |-> stats[1].min_price,
                    max_price |-> stats[1].max_price,
                    record_count |-> stats[1].count]>> \o rest

\* price_comparison.py 15-63; min() and max() return the first of several
\* equal entries, and the quotient by a cheapest latest price 0.0 of the
\* summary is a division of Python floats, a ZeroDivisionError.
compare_products(product_names) ==
    LET all_stats == compared_products(product_names)
        first_with(price) ==
            all_stats[CHOOSE i \in 1..Len(all_stats) :
                          /\ all_stats[i].latest_price = price
                          /\ \A j \in 1..(i - 1) :
                                 all_stats[j].latest_price # price]
        latest_prices == {all_stats[i].latest_price : i \in 1..Len(all_stats)}
        cheapest == first_with(SeriesMin(latest_prices))
        most_expensive == first_with(SeriesMax(latest_prices))
    IN IF all_stats = <<>>
       THEN Result([products |-> <<>>, summary |-> Nothing])
       ELSE IF cheapest.latest_price = 0
       THEN Raise("ZeroDivisionError")
       ELSE Result(
              [products |-> all_stats,
               summary |-> Some(
                  [cheapest_product |-> cheapest.name,
                   cheapest_price |-> cheapest.latest_price,
                   most_expensive_product |-> most_expensive.name,
                   most_expensive_price |-> most_expensive.latest_price,
                   price_difference |-> most_expensive.latest_price
                                            - cheapest.latest_price])])

\* SELECT name FROM products ORDER BY name
SortedNames == <<"A", "B">>
get_all_product_names ==
    SelectSeq(SortedNames, LAMBDA name : get_product_id(name) # None)

\* deals.sort(key = discount_percent, reverse = True): stable.
RECURSIVE sorted_by_discount_percent(_)
sorted_by_discount_percent(deals) ==
    IF deals = <<>> THEN <<>>
    ELSE LET front == sorted_by_discount_percent(
                          SubSeq(deals, 1, Len(deals) - 1))
             deal == deals[Len(deals)]
         IN SelectSeq(front, LAMBDA d : QuotientAtLeast(d.discount_percent,
                                                        deal.discount_percent))
                \o <<deal>>
                \o SelectSeq(front,
                             LAMBDA d : ~QuotientAtLeast(d.discount_percent,
                                                         deal.discount_percent))

\* price_comparison.py 199-221: the deals in the order of the names.
RECURSIVE deals_of(_, _)
deals_of(product_names, min_discount_percent) ==
    IF product_names = <<>> THEN <<>>
    ELSE LET product_name == Head(product_names)
             df == get_price_history(product_name, Nothing)
             max_price == SeriesMax(PriceColumn(df))
             current_price == df[Len(df)].Price
             discount_percent ==
                 Quotient((max_price - current_price) * 100, max_price)
             rest == deals_of(Tail(product_names), min_discount_percent)
         IN IF Len(df) < 2 \/ max_price = 0
            THEN rest
            ELSE IF QuotientAtLeast(discount_percent,
                                    Quotient(min_discount_percent, 1))
            THEN <<[product_name |-> product_name,
                    current_price |-> current_price,
                    maximum_price |-> max_price,
                    discount_percent |-> discount_percent,
                    savings |-> max_price - current_price]>> \o rest
            ELSE rest

\* price_comparison.py 194-225
find_best_deals(min_discount_percent) ==
    Result(sorted_by_discount_percent(
               deals_of(get_all_product_names, min_discount_percent)))

\* ----------------------------------------------------------------- alerts
\* alerts.py 43: the threshold used when the caller passes None
default_alert_threshold == 10

\* Mutant: a drop equal to the threshold does not alert.
check_and_send_alerts_above_threshold(current_price, previous_price, alert_threshold) ==
    LET drop_percentage ==
            Quotient((previous_price[1] - current_price) * 100,
                     previous_price[1])
        threshold == IF alert_threshold = Nothing
                     THEN default_alert_threshold
                     ELSE alert_threshold[1]
    IN IF previous_price = Nothing
       THEN Result("None")
       ELSE IF previous_price[1] = 0
       THEN Raise("ZeroDivisionError")
       ELSE IF drop_percentage.num < 0
       THEN Result("None")
       ELSE IF QuotientGreater(drop_percentage, Quotient(threshold, 1))
       THEN Result("True")
       ELSE Result("False")

\* alerts.py 186-211: what the call returns (True, False, or None by a bare
\* return); the three send_* methods it calls before returning True catch
\* their own exceptions.  previous_price and alert_threshold are Nothing
\* (None) or Some(number); the quotient by a previous price 0.0 is a
\* division of Python floats.
check_and_send_alerts(current_price, previous_price, alert_threshold) ==
    LET drop_percentage ==
            Quotient((previous_price[1] - current_price) * 100,
                     previous_price[1])
        threshold == IF alert_threshold = Nothing
                     THEN default_alert_threshold
                     ELSE alert_threshold[1]
    IN IF previous_price = Nothing
       THEN Result("None")
       ELSE IF previous_price[1] = 0
       THEN Raise("ZeroDivisionError")
       ELSE IF drop_percentage.num < 0
       THEN Result("None")
       ELSE IF QuotientAtLeast(drop_percentage, Quotient(threshold, 1))
       THEN Result("True")
       ELSE Result("False")

\* ---------------------------------------------------------------- results
\* What the caller of the last completed call got: the returned product id
\* (add_product), row count (cleanup_old_records) or boolean
\* (add_price_record, delete_product), the line the method printed, and
\* whether it raised instead of returning.
Returned(op, id, ok, printed) ==
    [op |-> op, id |-> id, ok |-> ok, printed |-> printed, raised |-> FALSE]

Raised(op) ==
    [op |-> op, id |-> None, ok |-> FALSE, printed |-> "", raised |-> TRUE]

NoLocals == [product_name |-> "", product_id |-> None]

\* Rows the handles in flight may still insert.
InFlight == Cardinality({h \in Handles : pc[h] = "add_price_record"})

\* ------------------------------------------------------------------- Init
Init ==
    /\ variant \in Variants
    /\ products = {}
    /\ products_seq = 0
    /\ price_history = {}
    /\ price_history_seq = 0
    /\ pc = [h \in Handles |-> "idle"]
    /\ locals = [h \in Handles |-> NoLocals]
    /\ ret = Returned("init", None, TRUE, "")

\* ------------------------------------------------------------ add_product
\* Mutant: INSERT OR REPLACE, which drops the row of that name and inserts
\* a new one under a new id.
INSERT_OR_REPLACE_INTO_products(name, url) ==
    {p \in products : p.name # name} \cup
        {[id |-> products_seq + 1, name |-> name, url |-> url,
          updated_at |-> adapt_datetime(now)]}

\* Mutant: a products table without UNIQUE on name.
INSERT_INTO_products_without_UNIQUE(name, url) ==
    products \cup {[id |-> products_seq + 1, name |-> name, url |-> url,
                    updated_at |-> adapt_datetime(now)]}

\* Mutant: a products table whose id is INTEGER PRIMARY KEY without
\* AUTOINCREMENT: the new rowid is one more than the largest one in the
\* table, so the id of a deleted last row is issued again.
INSERT_OR_IGNORE_INTO_products_without_AUTOINCREMENT(name, url) ==
    IF \E p \in products : p.name = name
    THEN products
    ELSE products \cup
           {[id |-> IF products = {} THEN 1
                    ELSE (CHOOSE p \in products :
                              \A q \in products : q.id <= p.id).id + 1,
             name |-> name, url |-> url,
             updated_at |-> adapt_datetime(now)]}

\* INSERT OR IGNORE INTO products (name, url, updated_at): a row whose name
\* is taken (UNIQUE) is skipped; a new row takes the next AUTOINCREMENT id.
INSERT_OR_IGNORE_INTO_products(name, url) ==
    IF \E p \in products : p.name = name
    THEN products
    ELSE products \cup {[id |-> products_seq + 1, name |-> name, url |-> url,
                         updated_at |-> adapt_datetime(now)]}

PriceDatabase_add_product(h, name, url) ==
    /\ variant = "PriceDatabase"
    /\ pc[h] = "idle"
    /\ (get_product_id(name) = None) => products_seq < MaxProducts
    /\ products' = INSERT_OR_IGNORE_INTO_products(name, url)
    /\ products_seq' = IF products' = products THEN products_seq
                       ELSE products_seq + 1
    /\ ret' = Returned("add_product",
                       IF \E p \in products' : p.name = name
                       THEN (CHOOSE p \in products' : p.name = name).id
                       ELSE None,
                       TRUE, "")
    /\ UNCHANGED <<variant, price_history, price_history_seq, pc, locals>>

\* INSERT INTO products (name, url): sqlite3.IntegrityError when the name is
\* taken, and then the existing id is selected; else cursor.lastrowid.
DatabaseManager_add_product(h, name, url) ==
    /\ variant = "DatabaseManager"
    /\ pc[h] = "idle"
    /\ IF \E p \in products : p.name = name
       THEN /\ ret' = Returned("add_product", get_product_id(name), TRUE, "")
            /\ UNCHANGED <<products, products_seq>>
       ELSE /\ products_seq < MaxProducts
            /\ products' = products \cup
                   {[id |-> products_seq + 1, name |-> name, url |-> url,
                     updated_at |-> CURRENT_TIMESTAMP]}
            /\ products_seq' = products_seq + 1
            /\ ret' = Returned("add_product", products_seq + 1, TRUE, "")
    /\ UNCHANGED <<variant, price_history, price_history_seq, pc, locals>>

\* Mutant: add_price_record that registers an unknown product itself.
PriceDatabase_add_price_record_auto_register(h, product_name) ==
    /\ variant = "PriceDatabase"
    /\ pc[h] = "idle"
    /\ price_history_seq + InFlight < MaxRecords
    /\ (get_product_id(product_name) = None) => products_seq < MaxProducts
    /\ products' = INSERT_OR_IGNORE_INTO_products(product_name, "x")
    /\ products_seq' = IF products' = products THEN products_seq
                       ELSE products_seq + 1
    /\ pc' = [pc EXCEPT ![h] = "add_price_record"]
    /\ locals' = [locals EXCEPT ![h] =
            [product_name |-> product_name,
             product_id |-> IF get_product_id(product_name) = None
                            THEN products_seq + 1
                            ELSE get_product_id(product_name)]]
    /\ UNCHANGED <<variant, price_history, price_history_seq, ret>>

\* ------------------------------------------------------- add_price_record
\* database.py 95-104 / database_manager.py 85-93: get_product_id on its own
\* connection; an unknown name prints and returns False.  The price and the
\* timestamp are read first at the INSERT, where the model draws them.
PriceDatabase_add_price_record_begin(h, product_name) ==
    /\ variant = "PriceDatabase"
    /\ pc[h] = "idle"
    /\ LET product_id == get_product_id(product_name)
       IN IF product_id = None
          THEN /\ ret' = Returned("add_price_record", None, FALSE, "not found")
               /\ UNCHANGED <<pc, locals>>
          ELSE /\ price_history_seq + InFlight < MaxRecords
               /\ pc' = [pc EXCEPT ![h] = "add_price_record"]
               /\ locals' = [locals EXCEPT ![h] =
                       [product_name |-> product_name,
                        product_id |-> product_id]]
               /\ UNCHANGED ret
    /\ UNCHANGED <<variant, products, products_seq, price_history,
                   price_history_seq>>

\* Mutant: one row per product, a later append overwriting the earlier one.
REPLACE_INTO_price_history(product_id, price, recorded_at) ==
    {r \in price_history : r.product_id # product_id} \cup
        {[id |-> price_history_seq + 1, product_id |-> product_id,
          price |-> price, recorded_at |-> adapt_datetime(recorded_at)]}

\* INSERT INTO price_history (product_id, price, recorded_at): the next
\* AUTOINCREMENT id; the FOREIGN KEY clause is not enforced (no PRAGMA
\* foreign_keys), so the product row need not exist any more.
INSERT_INTO_price_history(product_id, price, recorded_at) ==
    price_history \cup {[id |-> price_history_seq + 1,
                         product_id |-> product_id,
                         price |-> price,
                         recorded_at |-> adapt_datetime(recorded_at)]}

\* UPDATE products SET updated_at = ? WHERE id = ?
UPDATE_products_SET_updated_at(recorded_at, product_id) ==
    {IF p.id = product_id
     THEN [p EXCEPT !.updated_at = adapt_datetime(recorded_at)]
     ELSE p : p \in products}

\* database.py 106-121: INSERT, UPDATE and commit on one connection.
PriceDatabase_add_price_record_commit(h, price, recorded_at) ==
    /\ variant = "PriceDatabase"
    /\ pc[h] = "add_price_record"
    /\ price_history' = INSERT_INTO_price_history(locals[h].product_id,
                                                  price, recorded_at)
    /\ price_history_seq' = price_history_seq + 1
    /\ products' = UPDATE_products_SET_updated_at(recorded_at,
                                                  locals[h].product_id)
    /\ ret' = Returned("add_price_record", None, TRUE, "")
    /\ pc' = [pc EXCEPT ![h] = "idle"]
    /\ locals' = [locals EXCEPT ![h] = NoLocals]
    /\ UNCHANGED <<variant, products_seq>>

\* database.py 122-125: any exception of the write (database locked, disk
\* full) is printed, the transaction is rolled back and False is returned.
PriceDatabase_add_price_record_rollback(h) ==
    /\ variant = "PriceDatabase"
    /\ pc[h] = "add_price_record"
    /\ ret' = Returned("add_price_record", None, FALSE, "error")
    /\ pc' = [pc EXCEPT ![h] = "idle"]
    /\ locals' = [locals EXCEPT ![h] = NoLocals]
    /\ UNCHANGED <<variant, products, products_seq, price_history,
                   price_history_seq>>

DatabaseManager_add_price_record_begin(h, product_name) ==
    /\ variant = "DatabaseManager"
    /\ pc[h] = "idle"
    /\ LET product_id == get_product_id(product_name)
       IN IF product_id = None    \* `not product_id`: None, or an id 0
          THEN /\ ret' = Returned("add_price_record", None, FALSE,
                                  "not found")
               /\ UNCHANGED <<pc, locals>>
          ELSE /\ price_history_seq + InFlight < MaxRecords
               /\ pc' = [pc EXCEPT ![h] = "add_price_record"]
               /\ locals' = [locals EXCEPT ![h] =
                       [product_name |-> product_name,
                        product_id |-> product_id]]
               /\ UNCHANGED ret
    /\ UNCHANGED <<variant, products, products_seq, price_history,
                   price_history_seq>>

\* database_manager.py 95-107: INSERT and commit; updated_at is not touched.
DatabaseManager_add_price_record_commit(h, price, timestamp) ==
    /\ variant = "DatabaseManager"
    /\ pc[h] = "add_price_record"
    /\ price_history' = INSERT_INTO_price_history(locals[h].product_id,
                                                  price, timestamp)
    /\ price_history_seq' = price_history_seq + 1
    /\ ret' = Returned("add_price_record", None, TRUE, "")
    /\ pc' = [pc EXCEPT ![h] = "idle"]
    /\ locals' = [locals EXCEPT ![h] = NoLocals]
    /\ UNCHANGED <<variant, products, products_seq>>

\* database_manager.py 95-107: no handler; the with block rolls back and the
\* exception reaches the caller.
DatabaseManager_add_price_record_raise(h) ==
    /\ variant = "DatabaseManager"
    /\ pc[h] = "add_price_record"
    /\ ret' = Raised("add_price_record")
    /\ pc' = [pc EXCEPT ![h] = "idle"]
    /\ locals' = [locals EXCEPT ![h] = NoLocals]
    /\ UNCHANGED <<variant, products, products_seq, price_history,
                   price_history_seq>>

\* --------------------------------------------------------- delete_product
\* database.py 211-215: get_product_id on its own connection.
delete_product_begin(h, product_name) ==
    /\ variant = "PriceDatabase"
    /\ pc[h] = "idle"
    /\ LET product_id == get_product_id(product_name)
       IN IF product_id = None
          THEN /\ ret' = Returned("delete_product", None, FALSE, "")
               /\ UNCHANGED <<pc, locals>>
          ELSE /\ pc' = [pc EXCEPT ![h] = "delete_product"]
               /\ locals' = [locals EXCEPT ![h] =
                       [product_name |-> product_name,
                        product_id |-> product_id]]
               /\ UNCHANGED ret
    /\ UNCHANGED <<variant, products, products_seq, price_history,
                   price_history_seq>>

\* Mutant: the product row is deleted without its price history.
DELETE_FROM_price_history_skipped(product_id) == price_history

\* DELETE FROM price_history WHERE product_id = ?
DELETE_FROM_price_history(product_id) ==
    {r \in price_history : r.product_id # product_id}

\* DELETE FROM products WHERE id = ?
DELETE_FROM_products(product_id) ==
    {p \in products : p.id # product_id}

\* database.py 217-227: both DELETEs and the commit on one connection.
delete_product_commit(h) ==
    /\ variant = "PriceDatabase"
    /\ pc[h] = "delete_product"
    /\ price_history' = DELETE_FROM_price_history(locals[h].product_id)
    /\ products' = DELETE_FROM_products(locals[h].product_id)
    /\ ret' = Returned("delete_product", None, TRUE, "")
    /\ pc' = [pc EXCEPT ![h] = "idle"]
    /\ locals' = [locals EXCEPT ![h] = NoLocals]
    /\ UNCHANGED <<variant, products_seq, price_history_seq>>

\* database.py 228-231: the exception is printed, rolled back, False.
delete_product_rollback(h) ==
    /\ variant = "PriceDatabase"
    /\ pc[h] = "delete_product"
    /\ ret' = Returned("delete_product", None, FALSE, "error")
    /\ pc' = [pc EXCEPT ![h] = "idle"]
    /\ locals' = [locals EXCEPT ![h] = NoLocals]
    /\ UNCHANGED <<variant, products, products_seq, price_history,
                   price_history_seq>>

\* ---------------------------------------------------- cleanup_old_records
\* Mutant: the rows at the cutoff go as well.
DELETE_FROM_price_history_WHERE_scraped_at_up_to(cutoff_date) ==
    {r \in price_history :
        TextLess(adapt_datetime(cutoff_date), r.recorded_at)}

\* DELETE FROM price_history WHERE scraped_at < ?  (the rows that stay)
DELETE_FROM_price_history_WHERE_scraped_at_before(cutoff_date) ==
    {r \in price_history :
        ~TextLess(r.recorded_at, adapt_datetime(cutoff_date))}

\* database_manager.py 260-275: one connection; returns cursor.rowcount.
cleanup_old_records(h, days_to_keep) ==
    /\ variant = "DatabaseManager"
    /\ pc[h] = "idle"
    /\ LET cutoff_date == now - days_to_keep * TicksPerDay
           kept == DELETE_FROM_price_history_WHERE_scraped_at_before(cutoff_date)
       IN /\ price_history' = kept
          /\ ret' = Returned("cleanup_old_records",
                             Cardinality(price_history \ kept), TRUE,
                             "cleaned up")
    /\ UNCHANGED <<variant, products, products_seq, price_history_seq, pc,
                   locals>>

\* ------------------------------------------------------- archive_old_data
\* DELETE FROM price_history WHERE recorded_at < ?  (the rows that stay)
DELETE_FROM_price_history_WHERE_recorded_at_before(cutoff_date) ==
    {r \in price_history :
        ~TextLess(r.recorded_at, adapt_datetime(cutoff_date))}

\* data_export.py 165-226, on one connection: the old records are read
\* through a JOIN with products; with none of them the call returns early,
\* else it writes them to the archive file and deletes every old row.
archive_old_data(h, days_old) ==
    /\ variant = "PriceDatabase"
    /\ pc[h] = "idle"
    /\ LET cutoff_date == now - days_old * TicksPerDay
           old_records ==
               {r \in price_history :
                   /\ \E p \in products : p.id = r.product_id
                   /\ TextLess(r.recorded_at, adapt_datetime(cutoff_date))}
       IN IF old_records = {}
          THEN /\ ret' = Returned("archive_old_data", None, TRUE,
                                  "No old records to archive")
               /\ UNCHANGED price_history
          ELSE /\ price_history' =
                     DELETE_FROM_price_history_WHERE_recorded_at_before(
                         cutoff_date)
               /\ ret' = Returned("archive_old_data", None, TRUE, "")
    /\ UNCHANGED <<variant, products, products_seq, price_history_seq, pc,
                   locals>>

\* ------------------------------------------------------------------- Next
\* Registration and appends only: the calls of a scraping deployment.
NextAppends ==
    \/ \E h \in Handles, name \in Names, url \in Urls :
           PriceDatabase_add_product(h, name, url)
    \/ \E h \in Handles, name \in Names, url \in Urls :
           DatabaseManager_add_product(h, name, url)
    \/ \E h \in Handles, name \in Names :
           PriceDatabase_add_price_record_begin(h, name)
    \/ \E h \in Handles, price \in Prices, recorded_at \in Times :
           PriceDatabase_add_price_record_commit(h, price, recorded_at)
    \/ \E h \in Handles : PriceDatabase_add_price_record_rollback(h)
    \/ \E h \in Handles, name \in Names :
           DatabaseManager_add_price_record_begin(h, name)
    \/ \E h \in Handles, price \in Prices, timestamp \in Times :
           DatabaseManager_add_price_record_commit(h, price, timestamp)
    \/ \E h \in Handles : DatabaseManager_add_price_record_raise(h)

Next ==
    \/ NextAppends
    \/ \E h \in Handles, name \in Names : delete_product_begin(h, name)
    \/ \E h \in Handles : delete_product_commit(h)
    \/ \E h \in Handles : delete_product_rollback(h)
    \/ \E h \in Handles, days_to_keep \in Days :
           cleanup_old_records(h, days_to_keep)
    \/ \E h \in Handles, days_old \in Days : archive_old_data(h, days_old)

Spec == Init /\ [][Next]_vars

SpecAppends == Init /\ [][NextAppends]_vars

\* -------------------------------------------------------------- analytics
\* AdvancedAnalytics, DiscountTracker and PriceComparer each hold a
\* PriceDatabase of their own on the same file and read through it, whatever
\* the store handles are doing.  What the caller got: the result dict or list (ok), the error dict, or an exception.
Outcome(op, result) ==
    IF result.raised # ""
    THEN Raised(op)
    ELSE Returned(op, None, result.error = "", "")

\* Arguments of the calls.
DaysAhead == 0..MaxDaysAhead
Methods == {"linear", "ml", "other"}
Windows == 1..MaxWindow
WindowLists ==
    UNION {[1..n -> Windows] : n \in 0..2}
        \cup {windows \in [1..3 -> Windows] :
                 windows[1] < windows[2] /\ windows[2] < windows[3]}
NameLists == UNION {[1..n -> Names] : n \in 0..2}
DiscountPercents == {0, 10, 50}

AdvancedAnalytics_calculate_volatility(product_name, days_back) ==
    /\ variant = "PriceDatabase"
    /\ ret' = Outcome("calculate_volatility",
                      calculate_volatility(product_name, days_back))
    /\ UNCHANGED <<variant, products, products_seq, price_history,
                   price_history_seq, pc, locals>>

AdvancedAnalytics_detect_seasonal_trends(product_name) ==
    /\ variant = "PriceDatabase"
    /\ ret' = Outcome("detect_seasonal_trends",
                      detect_seasonal_trends(product_name))
    /\ UNCHANGED <<variant, products, products_seq, price_history,
                   price_history_seq, pc, locals>>

\* Mutant: a prediction that is kept, as an observation of the product.
AdvancedAnalytics_predict_price_recorded(product_name, days_ahead, method, sklearn) ==
    /\ variant = "PriceDatabase"
    /\ ret' = Outcome("predict_price",
                      predict_price(product_name, days_ahead, method, sklearn))
    /\ price_history' = price_history \cup
           {[id |-> price_history_seq + 1,
             product_id |-> get_product_id(product_name),
             price |-> 0, recorded_at |-> adapt_datetime(now)]}
    /\ price_history_seq' = price_history_seq + 1
    /\ UNCHANGED <<variant, products, products_seq, pc, locals>>

AdvancedAnalytics_predict_price(product_name, days_ahead, method, sklearn) ==
    /\ variant = "PriceDatabase"
    /\ ret' = Outcome("predict_price",
                      predict_price(product_name, days_ahead, method, sklearn))
    /\ UNCHANGED <<variant, products, products_seq, price_history,
                   price_history_seq, pc, locals>>

AdvancedAnalytics_moving_averages(product_name, windows) ==
    /\ variant = "PriceDatabase"
    /\ ret' = Outcome("moving_averages",
                      moving_averages(product_name, windows))
    /\ UNCHANGED <<variant, products, products_seq, price_history,
                   price_history_seq, pc, locals>>

DiscountTracker_calculate_discount(product_name) ==
    /\ variant = "PriceDatabase"
    /\ ret' = Outcome("calculate_discount", calculate_discount(product_name))
    /\ UNCHANGED <<variant, products, products_seq, price_history,
                   price_history_seq, pc, locals>>

DiscountTracker_get_price_drops(product_name, days_back) ==
    /\ variant = "PriceDatabase"
    /\ ret' = Outcome("get_price_drops",
                      get_price_drops(product_name, days_back))
    /\ UNCHANGED <<variant, products, products_seq, price_history,
                   price_history_seq, pc, locals>>

DiscountTracker_get_best_discount_period(product_name) ==
    /\ variant = "PriceDatabase"
    /\ ret' = Outcome("get_best_discount_period",
                      get_best_discount_period(product_name))
    /\ UNCHANGED <<variant, products, products_seq, price_history,
                   price_history_seq, pc, locals>>

PriceComparer_analyze_best_buy_time(product_name, days_back) ==
    /\ variant = "PriceDatabase"
    /\ ret' = Outcome("analyze_best_buy_time",
                      analyze_best_buy_time(product_name, days_back))
    /\ UNCHANGED <<variant, products, products_seq, price_history,
                   price_history_seq, pc, locals>>

PriceComparer_compare_products(product_names) ==
    /\ variant = "PriceDatabase"
    /\ ret' = Outcome("compare_products", compare_products(product_names))
    /\ UNCHANGED <<variant, products, products_seq, price_history,
                   price_history_seq, pc, locals>>

PriceComparer_find_best_deals(min_discount_percent) ==
    /\ variant = "PriceDatabase"
    /\ ret' = Outcome("find_best_deals",
                      find_best_deals(min_discount_percent))
    /\ UNCHANGED <<variant, products, products_seq, price_history,
                   price_history_seq, pc, locals>>

\* card_scraper.py 190-211: the prices a scrape can find, and the
\* alert_threshold of the product's configuration (None when it has none).
CurrentPrices == 0..3
Thresholds == {Nothing, Some(0), Some(50)}

\* The caller passes the latest stored price as previous_price; "alert" is
\* the line printed when the alert is triggered.
AlertManager_check_and_send_alerts(current_price, previous_price, alert_threshold) ==
    /\ variant = "PriceDatabase"
    /\ LET result == check_and_send_alerts(current_price, previous_price,
                                           alert_threshold)
       IN ret' = IF result.raised # ""
                 THEN Raised("check_and_send_alerts")
                 ELSE Returned("check_and_send_alerts", None,
                               result.value[1] = "True",
                               IF result.value[1] = "True"
                               THEN "alert" ELSE "")
    /\ UNCHANGED <<variant, products, products_seq, price_history,
                   price_history_seq, pc, locals>>

\* The price histories the analytics are run on: every short one, the ones
\* whose returns lie at the volatility thresholds, and the ones around the
\* ten data points a prediction needs (a run of one price, then any three).
ShortPrices == {-1, 0, 1, 2}
SeriesInputs ==
    UNION {[1..n -> ShortPrices] : n \in 0..MaxShortLen}
        \cup [1..3 -> {25, 26}] \cup [1..3 -> {10, 11}]
        \cup {[i \in 1..n |-> IF i <= n - 3 THEN first ELSE last[i - (n - 3)]] :
                 n \in 9..MaxSeriesLen, first \in {1, 2},
                 last \in [1..3 -> {1, 2}]}
OtherInputs == {<<>>, <<0>>, <<2, 1>>}

\* The observations add_price_record(name, price) has stored for one
\* product after one call per price, all of them now.
Recorded(product_id, first_id, prices) ==
    {[id |-> first_id + i, product_id |-> product_id, price |-> prices[i],
      recorded_at |-> adapt_datetime(now)] : i \in 1..Len(prices)}

\* Histories whose observations were given a timestamp by the caller:
\* midnight of the day before, or now, in any order of insertion.
DatedInputs ==
    UNION {[1..n -> [price : {1, 2}, timestamp : {0, now}]] : n \in 2..3}

\* The observations add_price_record(name, price, timestamp) has stored for
\* one product after one call per row.
RecordedAt(product_id, first_id, rows) ==
    {[id |-> first_id + i, product_id |-> product_id,
      price |-> rows[i].price,
      recorded_at |-> adapt_datetime(rows[i].timestamp)] : i \in 1..Len(rows)}

\* A PriceDatabase file after add_product("A"), add_product("B") and the
\* appends of two price series, or of one dated series, with no call in
\* flight.
InitAnalytics ==
    /\ variant = "PriceDatabase"
    /\ products = {[id |-> 1, name |-> "A", url |-> "x",
                    updated_at |-> adapt_datetime(now)],
                   [id |-> 2, name |-> "B", url |-> "y",
                    updated_at |-> adapt_datetime(now)]}
    /\ products_seq = 2
    /\ \/ \E prices \in SeriesInputs, others \in OtherInputs :
              /\ price_history = Recorded(1, 0, prices)
                                     \cup Recorded(2, Len(prices), others)
              /\ price_history_seq = Len(prices) + Len(others)
       \/ \E rows \in DatedInputs :
              /\ price_history = RecordedAt(1, 0, rows)
              /\ price_history_seq = Len(rows)
    /\ pc = [h \in Handles |-> "idle"]
    /\ locals = [h \in Handles |-> NoLocals]
    /\ ret = Returned("add_price_record", None, TRUE, "")

NextAnalytics ==
    \/ \E name \in Names, days_back \in Days :
           AdvancedAnalytics_calculate_volatility(name, days_back)
    \/ \E name \in Names :
           AdvancedAnalytics_detect_seasonal_trends(name)
    \/ \E name \in Names, days_ahead \in DaysAhead,
          method \in Methods, sklearn \in BOOLEAN :
           AdvancedAnalytics_predict_price(name, days_ahead, method, sklearn)
    \/ \E name \in Names, windows \in WindowLists :
           AdvancedAnalytics_moving_averages(name, windows)
    \/ \E name \in Names :
           DiscountTracker_calculate_discount(name)
    \/ \E name \in Names, days_back \in Days :
           DiscountTracker_get_price_drops(name, days_back)
    \/ \E name \in Names :
           DiscountTracker_get_best_discount_period(name)
    \/ \E name \in Names, days_back \in Days :
           PriceComparer_analyze_best_buy_time(name, days_back)
    \/ \E product_names \in NameLists :
           PriceComparer_compare_products(product_names)
    \/ \E min_discount_percent \in DiscountPercents :
           PriceComparer_find_best_deals(min_discount_percent)
    \/ \E name \in Names, current_price \in CurrentPrices,
          alert_threshold \in Thresholds :
           \E previous_price \in PriceDatabase_get_latest_price(name) :
               AlertManager_check_and_send_alerts(current_price,
                                                  previous_price,
                                                  alert_threshold)

SpecAnalytics == InitAnalytics /\ [][NextAnalytics]_vars

\* ================================================================= claims
\* The datetime a stored text stands for, in ticks (what parsing it yields).
ParseTicks(text) ==
    text[1] * (TicksPerSecond * SecondsPerDay) + text[2] * TicksPerSecond
        + (IF Len(text) = 3 THEN text[3] ELSE 0)

\* history(name) of either variant, with no row for an unknown product.
HistoryOf(name) ==
    IF variant = "PriceDatabase"
    THEN get_price_history(name, Nothing)
    ELSE IF get_product_data(name) = Nothing THEN <<>>
         ELSE get_product_data(name)[1]

\* A step of one handle's add_price_record call (either variant).
AddPriceRecordStep ==
    \/ \E h \in Handles, name \in Names :
           \/ PriceDatabase_add_price_record_begin(h, name)
           \/ DatabaseManager_add_price_record_begin(h, name)
    \/ \E h \in Handles :
           /\ pc[h] = "add_price_record"
           /\ pc'[h] = "idle"

\* C1  Idempotent registration.  add_product(name, url) returns a non-null
\* id, the id of the row of that name; when the name is registered already
\* (whatever its url) it returns that row's id and the number of products
\* stays the same; and no step of an add_price_record call in between
\* changes the id of any name.
C1_IdempotentRegistration ==
    [][/\ \A h \in Handles, name \in Names, url \in Urls :
            (\/ PriceDatabase_add_product(h, name, url)
             \/ DatabaseManager_add_product(h, name, url))
            => /\ ret'.op = "add_product"
               /\ ret'.id # None
               /\ \E p \in products' : p.name = name /\ p.id = ret'.id
               /\ \A q \in products :
                      q.name = name
                      => /\ ret'.id = q.id
                         /\ Cardinality(products') = Cardinality(products)
       /\ AddPriceRecordStep
            => \A name \in Names : get_product_id(name)' = get_product_id(name)
      ]_vars

\* A repeated add_product has just returned the id of a product that has
\* observations already.
C1_Witness ==
    /\ ret.op = "add_product"
    /\ ret.id # None
    /\ RowsOf(ret.id) # {}
    /\ \E p \in products : p.id = ret.id

\* C2  At most one product row per distinct name, in every reachable state.
C2_UniqueName ==
    \A p \in products, q \in products : p.name = q.name => p = q

\* Two products are registered and the last add_product found its name
\* taken (it returned an id older than the newest one).
C2_Witness ==
    /\ Cardinality(products) = 2
    /\ ret.op = "add_product"
    /\ ret.id # None
    /\ ret.id < products_seq

NonDecreasing(df) ==
    \A i \in 1..(Len(df) - 1) :
        \/ df[i].Date < df[i + 1].Date
        \/ df[i].Date = df[i + 1].Date /\ df[i].Time <= df[i + 1].Time

\* C3  Append-only ordering.  Whatever order the timestamps were supplied
\* in, the history of every product (get_price_history, get_product_data)
\* lists the observations in non-decreasing (Date, Time) order, and the rows
\* it is read from are in non-decreasing order of their datetimes.
C3_HistoryAscending ==
    \A name \in Names :
        /\ NonDecreasing(HistoryOf(name))
        /\ LET rows == ORDER_BY_recorded_at_ASC(RowsOf(get_product_id(name)))
           IN \A i \in 1..(Len(rows) - 1) :
                  ParseTicks(rows[i].recorded_at)
                      <= ParseTicks(rows[i + 1].recorded_at)

\* A product whose later-inserted observation is at least a second older
\* than an earlier-inserted one.
C3_Witness ==
    \E name \in Names :
        \E r \in RowsOf(get_product_id(name)), s \in RowsOf(get_product_id(name)) :
            /\ r.id < s.id
            /\ <<DATE(s.recorded_at), TIME(s.recorded_at)>>
                   # <<DATE(r.recorded_at), TIME(r.recorded_at)>>
            /\ ParseTicks(s.recorded_at) < ParseTicks(r.recorded_at)

\* C4  get_latest_price(name) is None when the product is not registered or
\* has no observations, and else the price of an observation of the product
\* that no other observation of it is later than.
C4_LatestPrice ==
    \A name \in Names :
        LET rows == {r \in price_history :
                        \E p \in products :
                            p.name = name /\ r.product_id = p.id}
            results == IF variant = "PriceDatabase"
                       THEN PriceDatabase_get_latest_price(name)
                       ELSE DatabaseManager_get_latest_price(name)
        IN /\ results # {}
           /\ rows = {} => results = {Nothing}
           /\ rows # {} =>
                \A res \in results :
                    /\ res # Nothing
                    /\ \E r \in rows :
                           /\ r.price = (IF variant = "PriceDatabase"
                                         THEN res[1] ELSE res[1].price)
                           /\ \A s \in rows : ParseTicks(s.recorded_at)
                                                  <= ParseTicks(r.recorded_at)

\* The observation inserted last is older than, and priced differently
\* from, one inserted before it.
C4_Witness ==
    \E name \in Names :
        \E r \in RowsOf(get_product_id(name)), s \in RowsOf(get_product_id(name)) :
            /\ r.id < s.id
            /\ r.price # s.price
            /\ ParseTicks(s.recorded_at) < ParseTicks(r.recorded_at)

\* C5  add_price_record for a name with no product row returns False, and
\* the call is over: no observation is stored, no product is created, both
\* tables and their id counters are as before.
C5_AppendUnknownFails ==
    [][\A h \in Handles, name \in Names :
          (/\ \/ PriceDatabase_add_price_record_begin(h, name)
              \/ DatabaseManager_add_price_record_begin(h, name)
           /\ \A p \in products : p.name # name)
          => /\ ret' = Returned("add_price_record", None, FALSE, "not found")
             /\ pc'[h] = "idle"
             /\ products' = products
             /\ price_history' = price_history
             /\ products_seq' = products_seq
             /\ price_history_seq' = price_history_seq
      ]_vars

\* An append has just failed for a product that was registered, deleted
\* and not registered again.
C5_Witness ==
    /\ ret.op = "add_price_record"
    /\ ~ret.ok
    /\ ret.printed = "not found"
    /\ products_seq > 0
    /\ products = {}

\* C6  delete_product on a name with no product row returns False and
\* changes nothing; a delete_product whose DELETEs run (no storage error)
\* returns True, and afterwards the product row and every observation of
\* that product are gone while every other product and observation is
\* exactly as before.
C6_DeleteCascades ==
    [][/\ \A h \in Handles, name \in Names :
            (delete_product_begin(h, name) /\ \A p \in products : p.name # name)
            => /\ ret' = Returned("delete_product", None, FALSE, "")
               /\ pc'[h] = "idle"
               /\ products' = products
               /\ price_history' = price_history
       /\ \A h \in Handles :
            (pc[h] = "delete_product" /\ pc'[h] = "idle"
                 /\ ret'.printed # "error")
            => /\ ret'.op = "delete_product"
               /\ ret'.ok
               /\ products' =
                      {p \in products : p.id # locals[h].product_id}
               /\ price_history' =
                      {r \in price_history :
                          r.product_id # locals[h].product_id}
      ]_vars

\* A product with an observation has just been deleted, and another
\* product still has its observation.
C6_Witness ==
    /\ ret.op = "delete_product"
    /\ ret.ok
    /\ price_history_seq = 2
    /\ Cardinality(price_history) = 1
    /\ \E p \in products : RowsOf(p.id) # {}

\* The observations stored for the product of that name.
ObservationsOf(name) ==
    {r \in price_history :
        \E p \in products : p.name = name /\ r.product_id = p.id}

\* C7  Safe concurrent appends.  With only registrations and appends
\* running, on any number of handles: the history of a product is as long
\* as the number of observations stored for it; every step keeps the stored
\* observations; and the number stored for a product grows by exactly one
\* on the step on which an add_price_record for it returns True, and by
\* nothing on any other step.
C7_ConcurrentAppends ==
    /\ [](\A name \in Names :
             Len(HistoryOf(name)) = Cardinality(ObservationsOf(name)))
    /\ [][/\ price_history \subseteq price_history'
          /\ \A name \in Names :
               Cardinality(ObservationsOf(name))' =
                   Cardinality(ObservationsOf(name)) +
                       (IF \E h \in Handles :
                               /\ pc[h] = "add_price_record"
                               /\ pc'[h] = "idle"
                               /\ locals[h].product_name = name
                               /\ ret'.ok
                        THEN 1 ELSE 0)
         ]_vars

\* One handle's append to a product has just succeeded while the other
\* handle is inside an append to the same product.
C7_Witness ==
    /\ ret.op = "add_price_record"
    /\ ret.ok
    /\ \E h \in Handles :
           /\ pc[h] = "add_price_record"
           /\ RowsOf(locals[h].product_id) # {}

\* C8  get_statistics is the empty result for a product with no
\* observations, and for a product with exactly one observation it has
\* count 1, min = max = mean = that price and a standard deviation of 0.
C8_StatisticsSingleton ==
    variant = "PriceDatabase" =>
        \A name \in Names :
            LET rows == RowsOf(get_product_id(name))
                stats == get_statistics(name)
            IN /\ rows = {} => stats = Nothing
               /\ Cardinality(rows) = 1 =>
                    LET price == (CHOOSE r \in rows : TRUE).price
                    IN /\ stats # Nothing
                       /\ stats[1].count = 1
                       /\ stats[1].min_price = price
                       /\ stats[1].max_price = price
                       /\ stats[1].avg_price.num
                              = price * stats[1].avg_price.den
                       /\ ~stats[1].std_price.nan
                       /\ stats[1].std_price.sq_num = 0

\* C9  get_price_history(name, limit = N), N >= 1, is the first min(N, count)
\* rows of the full ascending history: the oldest ones.
C9_LimitOldest ==
    variant = "PriceDatabase" =>
        \A name \in Names, N \in 1..MaxLimit :
            LET full == get_price_history(name, Nothing)
                part == get_price_history(name, Some(N))
            IN /\ Len(part) = Min(N, Len(full))
               /\ \A i \in 1..Len(part) : part[i] = full[i]
               /\ NonDecreasing(part)

\* A product has more observations than the limit 1 and its oldest one,
\* at another (Date, Time) than the rest, was not inserted first.
C9_Witness ==
    /\ variant = "PriceDatabase"
    /\ \E name \in Names :
         \E r \in RowsOf(get_product_id(name)), s \in RowsOf(get_product_id(name)) :
            /\ r.id < s.id
            /\ <<DATE(s.recorded_at), TIME(s.recorded_at)>>
                   # <<DATE(r.recorded_at), TIME(r.recorded_at)>>
            /\ s.price # r.price
            /\ ParseTicks(s.recorded_at) < ParseTicks(r.recorded_at)

\* C10  For every limit that is not None, 0 included, get_price_history
\* returns at most limit observations.
C10_LimitCaps ==
    variant = "PriceDatabase" =>
        \A name \in Names, limit \in 0..MaxLimit :
            Len(get_price_history(name, Some(limit))) <= limit

\* C11  Ties.  Observations of a product with the same recorded_at come out
\* of the history in the order they were inserted, and get_latest_price is
\* the price of the one inserted last among those with the highest
\* recorded_at.
C11_TiesInsertionOrder ==
    \A name \in Names :
        LET rows == ObservationsOf(name)
            ordered == ORDER_BY_recorded_at_ASC(RowsOf(get_product_id(name)))
            newest == {r \in rows :
                          \A s \in rows : ParseTicks(s.recorded_at)
                                              <= ParseTicks(r.recorded_at)}
            results == IF variant = "PriceDatabase"
                       THEN PriceDatabase_get_latest_price(name)
                       ELSE DatabaseManager_get_latest_price(name)
        IN /\ HistoryOf(name) = DataFrame(ordered)
           /\ \A i \in 1..Len(ordered), j \in 1..Len(ordered) :
                  (i < j /\ ordered[i].recorded_at = ordered[j].recorded_at)
                      => ordered[i].id < ordered[j].id
           /\ rows # {} =>
                LET last == CHOOSE r \in newest : \A s \in newest : s.id <= r.id
                IN \A res \in results :
                       /\ res # Nothing
                       /\ last.price = (IF variant = "PriceDatabase"
                                        THEN res[1] ELSE res[1].price)

\* C12  Every add_price_record that succeeds, in either variant, refreshes
\* updated_at of the product it appended to: the product's updated_at is
\* then the recorded_at of the new observation.  An add_price_record that
\* fails leaves every product row as it was.
C12_UpdatedAtRefreshed ==
    [][/\ \A h \in Handles :
            (pc[h] = "add_price_record" /\ pc'[h] = "idle" /\ ret'.ok) =>
                \A p \in products' :
                    p.id = locals[h].product_id =>
                        \E r \in price_history' \ price_history :
                            p.updated_at = r.recorded_at
       /\ (AddPriceRecordStep /\ ret' # ret /\ ~ret'.ok) =>
              products' = products
      ]_vars

C15_VolatilityWindow ==
    variant = "PriceDatabase" =>
        \A name \in Names, days_back \in Days :
            LET within == {r \in ObservationsOf(name) :
                              ParseTicks(r.recorded_at)
                                  >= now - days_back * TicksPerDay}
                result == calculate_volatility(name, days_back)
            IN IF Cardinality(within) < 2
               THEN result.error # ""
               ELSE /\ result.error = ""
                    /\ result.value[1].data_points = Cardinality(within)

\* The prices of a product's history, oldest first.
PricesOf(name) == values(get_price_history(name, Nothing))

\* C14  Every analytics call (calculate_volatility, moving_averages,
\* detect_seasonal_trends, predict_price, calculate_discount,
\* get_price_drops, get_best_discount_period, analyze_best_buy_time,
\* compare_products, find_best_deals; every step of SpecAnalytics is one of
\* them) leaves the products and the observations of the store as they
\* were, whether it returns a result, returns an error or raises.
C14_AnalyticsReadOnly ==
    [][/\ products' = products
       /\ price_history' = price_history
       /\ products_seq' = products_seq
       /\ price_history_seq' = price_history_seq]_vars

\* An analytics call has raised, on a store that holds observations.
C14_Witness ==
    /\ ret.raised
    /\ ret.op \in {"moving_averages", "compare_products", "predict_price"}
    /\ price_history # {}

C17_MaxDrawdown ==
    \A name \in Names :
        LET prices == PricesOf(name)
            cumulative(i) == SumSeq(SubSeq(prices, 1, i))
            peak(i) == CHOOSE m \in {cumulative(j) : j \in 1..i} :
                           \A j \in 1..i : cumulative(j) <= m
            drawdowns == {cumulative(i) - peak(i) : i \in 1..Len(prices)}
            lowest == CHOOSE d \in drawdowns : \A e \in drawdowns : d <= e
        IN prices # <<>> =>
              calculate_max_drawdown(prices)
                  = (IF lowest < 0 THEN -lowest ELSE 0)

\* A history whose running sum falls below its peak, and whose drawdown
\* calculate_volatility reports.
C17_Witness ==
    \E name \in Names, days_back \in Days :
        /\ ret.op = "calculate_volatility"
        /\ ret.ok
        /\ Len(PricesOf(name)) >= 2
        /\ calculate_max_drawdown(PricesOf(name)) > 0
        /\ calculate_volatility(name, days_back).error = ""
        /\ calculate_volatility(name, days_back).value[1].max_drawdown > 0

\* C18  Moving averages.  For a window w and a history of n >= 1 prices the
\* result has no MA_w entry when n < w; when n >= w its values are undefined
\* at the first w - 1 positions and defined at the other n - w + 1, where
\* the value at position i is the mean of the w prices that end at i (so
\* that n = w gives exactly one defined value).
C18_MovingAverageValues ==
    \A name \in Names, w \in Windows :
        LET prices == PricesOf(name)
            n == Len(prices)
            result == moving_averages(name, <<w>>)
            entries == result.value[1].moving_averages
        IN n >= 1 =>
              /\ result.error = "" /\ result.raised = ""
              /\ n < w => w \notin DOMAIN entries
              /\ n >= w =>
                    /\ w \in DOMAIN entries
                    /\ Len(entries[w].values) = n
                    /\ Cardinality({i \in 1..n :
                           entries[w].values[i] # Nothing}) = n - w + 1
                    /\ \A i \in 1..n :
                         IF i < w
                         THEN entries[w].values[i] = Nothing
                         ELSE /\ entries[w].values[i] # Nothing
                              /\ entries[w].values[i][1].num * w
                                   = SumSeq(SubSeq(prices, i - w + 1, i))
                                         * entries[w].values[i][1].den

\* moving_averages has returned a result, and a product has exactly as many
\* observations as a window of 2 or more: one defined value.
C18_Witness ==
    /\ ret.op = "moving_averages"
    /\ ret.ok
    /\ \E name \in Names, w \in Windows :
         /\ w >= 2
         /\ Len(PricesOf(name)) = w
         /\ LET ma == moving_averages(name, <<w>>).value[1].moving_averages[w]
            IN /\ ma.values[w] # Nothing
               /\ ma.values[w - 1] = Nothing
               /\ ma.latest = ma.values[w]

\* C19  For every list of windows and every product with observations,
\* moving_averages returns a result and never raises; its crossover_signal
\* is null when fewer than 2 windows are given or when the moving average
\* of the smallest or of the largest window has no defined latest value
\* (the window exceeds the number of observations), and otherwise it is
\* "Golden Cross" when the latest value of the smallest window is strictly
\* greater than that of the largest and "Death Cross" when it is not, the
\* two being equal included.
C19_CrossoverSignal ==
    \A name \in Names, windows \in WindowLists :
        LET prices == PricesOf(name)
            n == Len(prices)
            result == moving_averages(name, windows)
            latest_sum(w) == SumSeq(SubSeq(prices, n - w + 1, n))
            short == min_of(windows)
            long == max_of(windows)
        IN n >= 1 =>
              /\ result.raised = ""
              /\ result.error = ""
              /\ result.value[1].crossover_signal =
                    (IF Len(windows) < 2 \/ short > n \/ long > n
                     THEN "None"
                     ELSE IF latest_sum(short) * long > latest_sum(long) * short
                     THEN "Golden Cross (Bullish)"
                     ELSE "Death Cross (Bearish)")

\* C20  predict_price (days_ahead >= 1, method linear or ml) returns an
\* error result for a product with fewer than 10 observations and a
\* prediction for one with 10 or more; the prediction lists exactly
\* days_ahead predicted prices, and its trend is "increasing" iff the slope
\* of the fitted line is > 0 and "decreasing" otherwise, slope 0 included.
\* For the least-squares line over all the prices the slope has the sign of
\* the sum of (j - i) * (prices[j] - prices[i]) over i < j.
C20_PredictPrice ==
    \A name \in Names, days_ahead \in 1..MaxDaysAhead,
       method \in {"linear", "ml"}, sklearn \in BOOLEAN :
        LET prices == PricesOf(name)
            n == Len(prices)
            result == predict_price(name, days_ahead, method, sklearn)
            rise == SumSeq([k \in 1..(n * n) |->
                        LET i == ((k - 1) \div n) + 1
                            j == ((k - 1) % n) + 1
                        IN IF i < j THEN (j - i) * (prices[j] - prices[i])
                           ELSE 0])
        IN /\ result.raised = ""
           /\ n < 10 => result.error # ""
           /\ n >= 10 =>
                /\ result.error = ""
                /\ Len(result.value[1].predictions) = days_ahead
                /\ result.value[1].slope.den > 0
                /\ result.value[1].trend \in {"increasing", "decreasing"}
                /\ result.value[1].trend = "increasing"
                       <=> result.value[1].slope.num > 0
                /\ (method = "linear" \/ ~sklearn) =>
                       (result.value[1].trend = "increasing" <=> rise > 0)

\* predict_price has returned a prediction, and a product has ten
\* observations of one price: slope 0, trend "decreasing".
C20_Witness ==
    /\ ret.op = "predict_price"
    /\ ret.ok
    /\ \E name \in Names :
         LET result == predict_price(name, 1, "linear", TRUE)
         IN /\ Len(PricesOf(name)) = 10
            /\ result.error = ""
            /\ result.value[1].slope.num = 0
            /\ result.value[1].trend = "decreasing"

\* The prices of the observations of a product that no other observation
\* of the product follows in time.
LastRecordedPrices(name) ==
    {r.price : r \in {r \in ObservationsOf(name) :
                        \A s \in ObservationsOf(name) :
                            ~TextLess(r.recorded_at, s.recorded_at)}}

\* C21 (as stated)  calculate_discount returns an error result iff the
\* product has fewer than 2 observations; otherwise
\* discount_from_max_percent is the quotient (max - current) / max * 100,
\* whatever the maximum is, where current is the price of the
\* chronologically last observation, is_lowest_price holds iff current is
\* the minimum and is_below_average iff current is strictly below the mean.
C21_DiscountFromMax ==
    \A name \in Names :
        LET observations == ObservationsOf(name)
            n == Cardinality(observations)
            result == calculate_discount(name)
            discount == result.value[1]
            current == discount.current_price
            max_price == SeriesMax({r.price : r \in observations})
            min_price == SeriesMin({r.price : r \in observations})
        IN /\ result.raised = ""
           /\ result.error # "" <=> n < 2
           /\ n >= 2 =>
                /\ current \in LastRecordedPrices(name)
                /\ max_price # 0
                /\ discount.discount_from_max_percent.num * max_price
                      = (max_price - current) * 100
                            * discount.discount_from_max_percent.den
                /\ discount.is_lowest_price <=> current = min_price
                /\ discount.is_below_average
                      <=> current * n < SumPrice(get_price_history(name, Nothing))

\* C21 (amended)  As above, with discount_from_max_percent the quotient
\* (max - current) / max * 100 when the maximum is positive and 0 when it
\* is not.
C21_DiscountFromPositiveMax ==
    \A name \in Names :
        LET observations == ObservationsOf(name)
            n == Cardinality(observations)
            result == calculate_discount(name)
            discount == result.value[1]
            current == discount.current_price
            max_price == SeriesMax({r.price : r \in observations})
            min_price == SeriesMin({r.price : r \in observations})
        IN /\ result.raised = ""
           /\ result.error # "" <=> n < 2
           /\ n >= 2 =>
                /\ current \in LastRecordedPrices(name)
                /\ discount.discount_from_max_percent.den > 0
                /\ IF max_price > 0
                   THEN discount.discount_from_max_percent.num * max_price
                           = (max_price - current) * 100
                                 * discount.discount_from_max_percent.den
                   ELSE discount.discount_from_max_percent.num = 0
                /\ discount.is_lowest_price <=> current = min_price
                /\ discount.is_below_average
                      <=> current * n < SumPrice(get_price_history(name, Nothing))

\* calculate_discount has returned a result for a product whose last
\* inserted observation is not its last recorded one: maximum 2, current 1
\* (a discount of 50 percent), recorded now, inserted before a 2 of the day
\* before.
C21_Witness ==
    /\ ret.op = "calculate_discount"
    /\ ret.ok
    /\ \E r \in ObservationsOf("A"), s \in ObservationsOf("A") :
         /\ r.id < s.id
         /\ TextLess(s.recorded_at, r.recorded_at)
         /\ r.price = 1 /\ s.price = 2
         /\ LastRecordedPrices("A") = {1}
    /\ calculate_discount("A").value[1].discount_from_max_percent
          = [num |-> 100, den |-> 2]
    /\ calculate_discount("A").value[1].is_lowest_price

\* C22 (as stated)  get_price_drops(name, days_back) returns exactly one
\* event for each pair of consecutive observations that both lie within the
\* window (recorded_at >= now - days_back) and whose later price is strictly
\* lower than the earlier one, no event built from an observation outside
\* the window, even when no observation lies within it, and the events in
\* the order of non-increasing drop_amount.
C22_PriceDropsInWindow ==
    \A name \in Names, days_back \in Days :
        LET rows == ORDER_BY_recorded_at_ASC(ObservationsOf(name))
            cutoff_date == now - days_back * TicksPerDay
            within(r) == ParseTicks(r.recorded_at) >= cutoff_date
            falls == {i \in 2..Len(rows) :
                         /\ within(rows[i - 1])
                         /\ within(rows[i])
                         /\ rows[i].price < rows[i - 1].price}
            result == get_price_drops(name, days_back)
            events == result.value[1]
        IN /\ result.raised = "" /\ result.error = ""
           /\ Len(events) = Cardinality(falls)
           /\ \A i \in falls :
                \E k \in 1..Len(events) :
                    /\ events[k].previous_price = rows[i - 1].price
                    /\ events[k].new_price = rows[i].price
                    /\ events[k].drop_amount = rows[i - 1].price - rows[i].price
                    /\ events[k].date = DATE(rows[i].recorded_at)
           /\ \A k \in 1..(Len(events) - 1) :
                events[k].drop_amount >= events[k + 1].drop_amount

\* C23  find_best_deals(min_discount_percent) returns exactly the
\* registered products with at least 2 observations and a positive
\* historical maximum whose (max - current) / max * 100 is at least
\* min_discount_percent, each once, in the order of non-increasing
\* discount_percent.
C23_BestDeals ==
    \A min_discount_percent \in DiscountPercents :
        LET result == find_best_deals(min_discount_percent)
            deals == result.value[1]
            max_price(name) == SeriesMax({r.price : r \in ObservationsOf(name)})
            current_price(name) ==
                LET df == get_price_history(name, Nothing)
                IN df[Len(df)].Price
            qualifying ==
                {name \in Names :
                    /\ get_product_id(name) # None
                    /\ Cardinality(ObservationsOf(name)) >= 2
                    /\ max_price(name) > 0
                    /\ (max_price(name) - current_price(name)) * 100
                          >= min_discount_percent * max_price(name)}
        IN /\ result.raised = "" /\ result.error = ""
           /\ {deals[k].product_name : k \in 1..Len(deals)} = qualifying
           /\ Len(deals) = Cardinality(qualifying)
           /\ \A k \in 1..(Len(deals) - 1) :
                QuotientAtLeast(deals[k].discount_percent,
                                deals[k + 1].discount_percent)

\* C24  compare_products(names) never aborts: in every store whose prices
\* are all non-negative, and for every list of names, it returns a
\* comparison whose products are exactly the given names that have at least
\* one observation, in input order, with the cheapest and the most
\* expensive chosen by latest price.
C24_CompareNeverAborts ==
    (\A r \in price_history : r.price >= 0) =>
        \A product_names \in NameLists :
            LET result == compare_products(product_names)
                comparison == result.value[1]
                observed == SelectSeq(product_names,
                                LAMBDA name : ObservationsOf(name) # {})
                latest(name) ==
                    LET df == get_price_history(name, Nothing)
                    IN df[Len(df)].Price
            IN /\ result.raised = ""
               /\ result.error = ""
               /\ [k \in 1..Len(comparison.products) |->
                       comparison.products[k].name] = observed
               /\ observed # <<>> =>
                    /\ comparison.summary # Nothing
                    /\ \A k \in 1..Len(observed) :
                         /\ comparison.summary[1].cheapest_price
                               <= latest(observed[k])
                         /\ comparison.summary[1].most_expensive_price
                               >= latest(observed[k])
                    /\ comparison.summary[1].cheapest_price
                          = latest(comparison.summary[1].cheapest_product)
                    /\ comparison.summary[1].most_expensive_price
                          = latest(comparison.summary[1].most_expensive_product)

\* C25  A storage fault is reported as an outcome of its own: when the
\* write of add_price_record or delete_product fails, what the caller gets
\* (the returned value, or an exception) differs from what it gets for an
\* unregistered product, which is False returned; and the failed write
\* leaves the products and the observations as they were.
C25_StorageErrorDistinct ==
    [][(\E h \in Handles :
           \/ PriceDatabase_add_price_record_rollback(h)
           \/ DatabaseManager_add_price_record_raise(h)
           \/ delete_product_rollback(h))
        => /\ <<ret'.ok, ret'.raised>> # <<FALSE, FALSE>>
           /\ products' = products
           /\ price_history' = price_history]_vars

\* C26  Every stored observation has a price >= 0: add_price_record never
\* stores a negative price.
C26_PricesNonNegative ==
    \A r \in price_history : r.price >= 0

\* The previous prices a call can be given: None or a stored price.
PreviousPrices ==
    {Nothing} \cup {Some(r.price) : r \in price_history}

\* C27  check_and_send_alerts(product, current_price, previous_price, url,
\* threshold) with previous_price > 0 returns True iff current_price <=
\* previous_price and (previous_price - current_price) / previous_price *
\* 100 >= threshold (the configured default when the threshold is None); it
\* never returns True for a price increase, and it returns without alerting
\* when previous_price is None.
C27_AlertIffDrop ==
    [][ret'.op = "check_and_send_alerts" =>
         \A current_price \in CurrentPrices,
            previous_price \in PreviousPrices,
            alert_threshold \in Thresholds :
             AlertManager_check_and_send_alerts(current_price, previous_price,
                                                alert_threshold)
               => LET threshold == IF alert_threshold = Nothing
                                   THEN 10 ELSE alert_threshold[1]
                  IN /\ previous_price = Nothing =>
                          ~ret'.raised /\ ~ret'.ok /\ ret'.printed = ""
                     /\ (previous_price # Nothing /\ previous_price[1] > 0) =>
                          /\ ~ret'.raised
                          /\ ret'.ok <=>
                               /\ current_price <= previous_price[1]
                               /\ (previous_price[1] - current_price) * 100
                                     >= threshold * previous_price[1]
                          /\ current_price > previous_price[1] => ~ret'.ok
    ]_vars

\* The call has returned True, and a stored price 2 against the current
\* price 1 is a drop of exactly the threshold 50 it can have been given.
C27_Witness ==
    /\ ret.op = "check_and_send_alerts"
    /\ ret.ok
    /\ ret.printed = "alert"
    /\ Some(2) \in PriceDatabase_get_latest_price("A")
    /\ check_and_send_alerts(1, Some(2), Some(50)).value[1] = "True"
    /\ check_and_send_alerts(3, Some(2), Some(0)).value[1] = "None"

\* C28  Referential integrity: in every reachable state, whatever the
\* interleaving of add_price_record with a delete_product of the same
\* product, the product_id of every price_history row is the id of a
\* products row.
C28_NoOrphanObservations ==
    \A r \in price_history : \E p \in products : p.id = r.product_id

\* C29  A product registered under a name that has no product, after a
\* delete_product of that name included, gets an id different from every
\* id issued before, and right after the registration its history is empty
\* and its latest price is None: no observation stored earlier, an orphan
\* of the deleted product included, shows under the new product.
C29_ReRegistrationStartsEmpty ==
    [][(variant = "PriceDatabase" /\ ret'.op = "add_product"
            /\ products' # products) =>
         \A p \in products' \ products :
             /\ p.id \notin 1..products_seq
             /\ \A q \in products : q.id # p.id
             /\ \A r \in price_history' : r.product_id # p.id
             /\ get_price_history(p.name, Nothing)' = <<>>
             /\ PriceDatabase_get_latest_price(p.name)' = {Nothing}
    ]_vars

\* "A" has been deleted and registered again: it has the id 2, an
\* observation stored late for the id 1 is still in the table, and the
\* history of "A" is empty.
C29_Witness ==
    /\ variant = "PriceDatabase"
    /\ ret.op = "add_product"
    /\ ret.id = 2
    /\ products = {p \in products : p.name = "A" /\ p.id = 2}
    /\ products # {}
    /\ \E r \in price_history : r.product_id = 1
    /\ get_price_history("A", Nothing) = <<>>
    /\ PriceDatabase_get_latest_price("A") = {Nothing}

\* C30  For every non-empty sequence of non-negative prices
\* _calculate_max_drawdown returns 0, and so calculate_volatility reports
\* max_drawdown = 0 for every stored price history it returns a result for.
C30_MaxDrawdownZero ==
    \A name \in Names :
        /\ (/\ PricesOf(name) # <<>>
            /\ \A i \in 1..Len(PricesOf(name)) : PricesOf(name)[i] >= 0)
              => calculate_max_drawdown(PricesOf(name)) = 0
        /\ \A days_back \in Days :
             LET result == calculate_volatility(name, days_back)
             IN (result.error = "" /\ result.raised = "")
                   => result.value[1].max_drawdown = 0

====
